---- MODULE Spec2Model ----
(***************************************************************************)
(* Model of the codemap of codespan_preprocessed (src/src/codemap.rs):     *)
(* PreprocessedFile::new builds the line table and the list of file        *)
(* slices from a buffer holding `#line N "F"` directives; file_id,         *)
(* line_index, line_range and name answer queries against them.            *)
(*                                                                         *)
(* A buffer is a sequence of one-character strings; byte offsets are       *)
(* 0-based as in the source, sequence positions are 1-based.  A Rust range *)
(* s..e is the record [start |-> s, end |-> e].                            *)
(***************************************************************************)
EXTENDS Integers, Sequences, FiniteSets, TLC

(* ---------------- bounds of the model ---------------- *)

\* most lines of a generated buffer
MaxLines == 3
\* largest line number a generated directive declares
MaxN == 2
\* how far past the end of the buffer a queried byte offset may lie
MaxBeyond == 1
\* largest payload of a located value
MaxValue == 1
\* largest bound of a location
MaxByte == 2
\* the threads that share one EasyReporting
NThreads == 2
\* most calls of emit, all threads together
MaxEmits == 3

(* ---------------- machine integers ---------------- *)

\* usize/isize are modelled 16 bits wide (64 on the usual targets): every
\* index of the model is far below 2^15, so only the casts of negative
\* values wrap, as they do on the real width.
UsizeModulus == 65536

\* `x as usize` of a signed value
ToUsize(x) == x % UsizeModulus

\* `u as isize` of an unsigned value
ToIsize(u) == IF u >= UsizeModulus \div 2 THEN u - UsizeModulus ELSE u

(* ---------------- Option / Result values ---------------- *)

None == [some |-> FALSE, v |-> 0]
Some(x) == [some |-> TRUE, v |-> x]

Range(s, e) == [start |-> s, end |-> e]

(* ---------------- strings ---------------- *)

NL == "\n"
Marker == <<"#", "l", "i", "n", "e">>
DigitChars == <<"0", "1", "2", "3", "4", "5", "6", "7", "8", "9">>

\* &s[a..b] on an ASCII string (the caller checks a <= b <= len)
Slice(s, a, b) == SubSeq(s, a + 1, b)

\* str::starts_with
StartsWith(s, p) == Len(s) >= Len(p) /\ SubSeq(s, 1, Len(p)) = p

\* str::find(" "): the 0-based index of the first space, or None
FindSpace(s) ==
  LET hits == {i \in 1..Len(s) : s[i] = " "}
  IN  IF hits = {} THEN None
      ELSE Some((CHOOSE i \in hits : \A j \in hits : i <= j) - 1)

DigitValue(c) == (CHOOSE d \in 1..10 : DigitChars[d] = c) - 1

IsDigit(c) == \E d \in 1..10 : DigitChars[d] = c

RECURSIVE DigitsValue(_)
DigitsValue(s) ==
  IF Len(s) = 0 THEN 0
  ELSE 10 * DigitsValue(SubSeq(s, 1, Len(s) - 1)) + DigitValue(s[Len(s)])

\* str::parse::<isize>(): an optional sign, then one or more decimal digits;
\* anything else is Err (None here).  Values of the model never overflow.
ParseIsize(s) ==
  LET signed == Len(s) > 0 /\ s[1] \in {"+", "-"}
      body == IF signed THEN Tail(s) ELSE s
  IN  IF Len(body) = 0 \/ \E i \in 1..Len(body) : ~IsDigit(body[i])
      THEN None
      ELSE Some(IF signed /\ s[1] = "-" THEN 0 - DigitsValue(body)
                ELSE DigitsValue(body))

(* ---------------- PreprocessedFile::new: the line table ---------------- *)

\* the byte offsets of the newlines, in order
NewlineOffsets(contents) ==
  SelectSeq([i \in 1..Len(contents) |-> i - 1],
            LAMBDA b : contents[b + 1] = NL)

\* LineEndings pushing the buffer length whatever the last byte is
LineEndings_AlwaysPush(contents) ==
  Append(NewlineOffsets(contents), Len(contents))

\* line_endings: a last line without EOL gets the buffer length as its end
LineEndings(contents) ==
  LET e == NewlineOffsets(contents)
  IN  IF Len(e) > 0 /\ e[Len(e)] = Len(contents) - 1 THEN e
      ELSE Append(e, Len(contents))

\* LineRanges starting each line on the previous ending, not one past it
LineRanges_FromEnding(contents) ==
  LET e == LineEndings(contents)
  IN  [k \in 1..Len(e) |-> Range(IF k = 1 THEN 0 ELSE e[k - 1], e[k])]

\* line_ranges: each line from one past the previous ending to its ending
LineRanges(contents) ==
  LET e == LineEndings(contents)
  IN  [k \in 1..Len(e) |-> Range(IF k = 1 THEN 0 ELSE e[k - 1] + 1, e[k])]

(* ---------------- PreprocessedFile::new: the directive scan ---------------- *)

\* the text of line range r
LineText(contents, r) == Slice(contents, r.start, r.end)

\* the value standing for "no directive was produced" (a panic)
NoDirective ==
  [line_index |-> 0, byte_index |-> 0, offset |-> 0, filename |-> None]

\* DirectiveOffset with the directive's own line left out of the count
DirectiveOffset_OffByOne(l, n) == l + 1 - n

\* offset: l as isize + 2 - N
DirectiveOffset(l, n) == l + 2 - n

\* filename: past the separating space and the opening quote, up to the
\* closing quote (start: the line's first byte, len: the line's length)
FilenameRange(start, sep, len) == Range(start + sep + 2, start + len - 1)

\* The closure of .map(): the directive of line l (0-based) with range r, or
\* a panic: str[6..] on a line shorter than 6 bytes, or unwrap() of a failed
\* parse.
ParseDirective(contents, l, r) ==
  LET str == LineText(contents, r)
  IN  IF Len(str) < 6 THEN [panic |-> TRUE, d |-> NoDirective]
      ELSE
        LET rest == Slice(str, 6, Len(str))
            found == FindSpace(rest)
            sep == found.v + 6
            num == IF found.some THEN ParseIsize(Slice(str, 6, sep))
                   ELSE ParseIsize(rest)
        IN  IF ~num.some THEN [panic |-> TRUE, d |-> NoDirective]
            ELSE [panic |-> FALSE,
                  d |-> [line_index |-> l,
                         byte_index |-> r.start,
                         offset |-> DirectiveOffset(l, num.v),
                         filename |->
                           IF found.some
                           THEN Some(FilenameRange(r.start, sep, Len(str)))
                           ELSE None]]

\* the 1-based positions of the lines the filter keeps, in order
DirectiveLines(contents, line_ranges) ==
  SelectSeq([k \in 1..Len(line_ranges) |-> k],
            LAMBDA k : StartsWith(LineText(contents, line_ranges[k]), Marker))

\* directives: one parse result per kept line
ScanDirectives(contents, line_ranges) ==
  LET ks == DirectiveLines(contents, line_ranges)
  IN  [j \in 1..Len(ks) |->
         ParseDirective(contents, ks[j] - 1, line_ranges[ks[j]])]

(* ---------------- PreprocessedFile::new: segment assembly ---------------- *)

FileSlice(name, bytes, lines, offset) ==
  [name |-> name, bytes |-> bytes, lines |-> lines, offset |-> offset]

\* CurrentName without the carry-over: a directive that omits its filename
\* resets the name
CurrentName_NoCarry(directives, k) ==
  IF k = 0 THEN Range(0, 0)
  ELSE IF directives[k].filename.some THEN directives[k].filename.v
  ELSE Range(0, 0)

\* `current` after the closure has run on directives 1..k
RECURSIVE CurrentName(_, _)
CurrentName(directives, k) ==
  IF k = 0 THEN Range(0, 0)
  ELSE IF directives[k].filename.some THEN directives[k].filename.v
  ELSE CurrentName(directives, k - 1)

\* the optional leading slice, before the first directive
LeadingSlices(directives) ==
  IF directives[1].line_index > 0
  THEN <<FileSlice(Range(0, 0),
                   Range(0, directives[1].byte_index),
                   Range(0, directives[1].line_index),
                   0)>>
  ELSE <<>>

\* MiddleSlice starting on the directive line itself
MiddleSlice_FromDirective(line_ranges, directives, k) ==
  FileSlice(CurrentName(directives, k),
            Range(directives[k].byte_index, directives[k + 1].byte_index),
            Range(directives[k].line_index, directives[k + 1].line_index),
            directives[k].offset)

\* MiddleSlice ending, as the last slice does, at the end of the buffer
MiddleSlice_ToBufferEnd(line_ranges, directives, k) ==
  FileSlice(CurrentName(directives, k),
            Range(line_ranges[directives[k].line_index + 1 + 1].start,
                  line_ranges[Len(line_ranges)].end),
            Range(directives[k].line_index + 1, Len(line_ranges)),
            directives[k].offset)

\* the slice between directive k and directive k+1
MiddleSlice(line_ranges, directives, k) ==
  FileSlice(CurrentName(directives, k),
            Range(line_ranges[directives[k].line_index + 1 + 1].start,
                  directives[k + 1].byte_index),
            Range(directives[k].line_index + 1, directives[k + 1].line_index),
            directives[k].offset)

\* the slice after the last directive (the caller checks the line exists)
LastSlice(line_ranges, directives) ==
  LET n == Len(directives)
      last_directive == directives[n]
  IN  FileSlice(IF last_directive.filename.some
                THEN last_directive.filename.v
                ELSE CurrentName(directives, n - 1),
                Range(line_ranges[last_directive.line_index + 1 + 1].start,
                      line_ranges[Len(line_ranges)].end),
                Range(last_directive.line_index + 1, Len(line_ranges)),
                last_directive.offset)

\* the slice of a buffer without directives
WholeSlice(line_ranges) ==
  FileSlice(Range(0, 0),
            Range(0, line_ranges[Len(line_ranges)].end),
            Range(0, Len(line_ranges)),
            0)

\* files: panics when line_ranges[last_directive.line_index+1] is out of bounds
BuildFiles(line_ranges, directives) ==
  IF Len(directives) = 0
  THEN [panic |-> FALSE, ids |-> <<WholeSlice(line_ranges)>>]
  ELSE IF directives[Len(directives)].line_index + 1 >= Len(line_ranges)
  THEN [panic |-> TRUE, ids |-> <<>>]
  ELSE [panic |-> FALSE,
        ids |-> LeadingSlices(directives)
                \o [k \in 1..(Len(directives) - 1) |->
                      MiddleSlice(line_ranges, directives, k)]
                \o <<LastSlice(line_ranges, directives)>>]

\* PreprocessedFile::new as a whole
NewFile(contents) ==
  LET line_ranges == LineRanges(contents)
      scanned == ScanDirectives(contents, line_ranges)
      directives == [j \in 1..Len(scanned) |-> scanned[j].d]
      files == BuildFiles(line_ranges, directives)
  IN  IF \E j \in 1..Len(scanned) : scanned[j].panic
      THEN [panic |-> TRUE, lines |-> <<>>, ids |-> <<>>]
      ELSE [panic |-> files.panic,
            lines |-> IF files.panic THEN <<>> ELSE line_ranges,
            ids |-> files.ids]

(* ---------------- slice::binary_search_by ---------------- *)

\* The search loop over the comparison outcomes ords[i] = f(&self[i]):
\* Ok(i) for an element comparing Equal, else Err(insertion point); 0-based.
\* The ranges searched never share a byte, so at most one element compares
\* Equal and the element found does not depend on the order of the probes.
RECURSIVE SearchLoop(_, _, _)
SearchLoop(ords, left, right) ==
  IF left >= right THEN [found |-> FALSE, i |-> left]
  ELSE LET mid == left + ((right - left) \div 2)
       IN  IF ords[mid + 1] = "Less" THEN SearchLoop(ords, mid + 1, right)
           ELSE IF ords[mid + 1] = "Greater" THEN SearchLoop(ords, left, mid)
           ELSE [found |-> TRUE, i |-> mid]

BinarySearch(ords) == SearchLoop(ords, 0, Len(ords))

\* CompareBytes with the end of the range excluded
CompareBytes_ExclusiveEnd(byte_index, bytes) ==
  IF byte_index < bytes.start THEN "Greater"
  ELSE IF byte_index >= bytes.end THEN "Less"
  ELSE "Equal"

\* the comparison closure of file_id and of line_index: inclusive at both ends
CompareBytes(byte_index, bytes) ==
  IF byte_index < bytes.start THEN "Greater"
  ELSE IF byte_index > bytes.end THEN "Less"
  ELSE "Equal"

(* ---------------- queries ---------------- *)

\* file_id indexing ids with the insertion point without the guard: past
\* the last slice it gives no slice of the codemap
file_id_NoClamp(ids_, byte_index) ==
  LET r == BinarySearch([i \in 1..Len(ids_) |->
                           CompareBytes(byte_index, ids_[i].bytes)])
  IN  r.i + 1

\* PreprocessedFile::file_id: the slice found, as its 1-based position in ids
\* (the &FileSlice the source returns)
file_id(ids_, byte_index) ==
  LET r == BinarySearch([i \in 1..Len(ids_) |->
                           CompareBytes(byte_index, ids_[i].bytes)])
  IN  IF r.found THEN r.i + 1
      ELSE IF r.i < Len(ids_) THEN r.i + 1
      ELSE Len(ids_)

\* a query's result: Ok(val) / Ok(range) / Ok(text), Err(..) or a panic
Res(kind, val, range, text) ==
  [kind |-> kind, val |-> val, range |-> range, text |-> text]

OkVal(v) == Res("Ok", v, Range(0, 0), <<>>)
OkRange(r) == Res("Ok", 0, r, <<>>)
OkText(t) == Res("Ok", 0, Range(0, 0), t)
Panic == Res("Panic", 0, Range(0, 0), <<>>)

\* line_index taking the end of the slice as one of its bytes
line_index_StrictEnd(lines_, id, byte_index) ==
  IF id.bytes.end < byte_index
  THEN OkVal(ToUsize(id.lines.end - 1 - id.offset))
  ELSE IF byte_index < id.bytes.start
  THEN Res("FileMissing", 0, Range(0, 0), <<>>)
  ELSE LET r == BinarySearch([i \in 1..Len(lines_) |->
                                CompareBytes(byte_index, lines_[i])])
       IN  IF r.found THEN OkVal(ToUsize(r.i - id.offset))
           ELSE Panic

\* line_range looking the original index up without the offset
line_range_NoOffset(lines_, id, line_index_) ==
  LET at == line_index_
  IN  IF at < Len(lines_) THEN OkRange(lines_[at + 1])
      ELSE Res("LineTooLarge", line_index_, Range(0, Len(lines_)), <<>>)

\* Files::line_index
line_index(lines_, id, byte_index) ==
  IF id.bytes.end <= byte_index
  THEN OkVal(ToUsize(id.lines.end - 1 - id.offset))
  ELSE IF byte_index < id.bytes.start
  THEN Res("FileMissing", 0, Range(0, 0), <<>>)
  ELSE LET r == BinarySearch([i \in 1..Len(lines_) |->
                                CompareBytes(byte_index, lines_[i])])
       IN  IF r.found THEN OkVal(ToUsize(r.i - id.offset))
           ELSE Panic

\* Files::line_range: Err(LineTooLarge {given: val, max: range.end})
line_range(lines_, id, line_index_) ==
  LET at == ToUsize(ToIsize(line_index_) + id.offset)
  IN  IF at < Len(lines_) THEN OkRange(lines_[at + 1])
      ELSE Res("LineTooLarge", line_index_, Range(0, Len(lines_)), <<>>)

\* Files::name: str::index panics on a range that is reversed or too long
name(contents_, id) ==
  IF id.name.start <= id.name.end /\ id.name.end <= Len(contents_)
  THEN OkText(Slice(contents_, id.name.start, id.name.end))
  ELSE Panic

(* ---------------- easyloc.rs: EasyLocated ---------------- *)

\* The inner values: a plain payload, an Option or a Result of one.
Kinds == {"Plain", "Some", "None", "Ok", "Err"}

Payloads == 0..MaxValue

Value(kind, v) == [kind |-> kind, v |-> IF kind = "None" THEN 0 ELSE v]

Inners == {Value(k, v) : k \in Kinds, v \in Payloads}

Locations == {Range(s, e) : s \in 0..MaxByte, e \in 0..MaxByte}

\* EasyLocated::new
Located(x, loc) == [inner |-> x, loc |-> loc]

\* The closures handed to map and and_then: the result has kind `kind` and
\* payload g of the payload it is given.
Closures == [g : [Payloads -> Payloads], kind : Kinds]

NoClosure == [g |-> [v \in Payloads |-> v], kind |-> "Plain"]

Call(f, v) == Value(f.kind, f.g[v])

\* map building its result at the default location
map_DefaultLoc(self, f) == Located(Call(f, self.inner.v), Range(0, 0))

\* EasyLocated::map
map(self, f) == Located(Call(f, self.inner.v), self.loc)

\* EasyLocated<Option<X>>::transpose and EasyLocated<Result<X,E>>::transpose
transpose(self) ==
  IF self.inner.kind \in {"Some", "Ok"}
  THEN [kind |-> self.inner.kind,
        v |-> Located(Value("Plain", self.inner.v), self.loc)]
  ELSE self.inner

\* Option::and_then and Result::and_then
InnerAndThen(x, f) ==
  IF x.kind \in {"Some", "Ok"} THEN Call(f, x.v) ELSE x

\* EasyLocated<Option<X>>::and_then and EasyLocated<Result<X,E>>::and_then
and_then(self, f) == Located(InnerAndThen(self.inner, f), self.loc)

\* EasyLocator::locate for EasyLocated<Y>
locate(self, x) == Located(x, self.loc)

(* ---------------- reporting.rs: EasyReporting ---------------- *)

\* codespan_reporting::diagnostic::Severity
Severities == {"Bug", "Error", "Warning", "Note", "Help"}

\* AtomicU32::fetch_add storing the addend
fetch_add_Store(counter, n) == n

\* AtomicU32::fetch_add(n, SeqCst): one indivisible read-modify-write; the
\* counter would wrap after 2^32 additions, far beyond MaxEmits
fetch_add(counter, n) == counter + n

\* the match of emit on the severity: the counter the diagnostic is added to
Counted(severity) ==
  IF severity \in {"Bug", "Error"} THEN "errors"
  ELSE IF severity = "Warning" THEN "warnings"
  ELSE "none"

\* EasyReportingStatus
Status(kind, n) == [kind |-> kind, n |-> n]

NoStatus == Status("none", 0)

\* the match of check_status on the two values it has loaded
StatusOf(e, w) ==
  IF e # 0 THEN Status("Errors", e)
  ELSE IF w # 0 THEN Status("Warnings", w)
  ELSE Status("Faultless", 0)

(* ---------------- the buffers the model is run on ---------------- *)

\* A buffer is described line by line and rendered to bytes: a text line, a
\* directive `#line n` or `#line n "f"`, or a malformed near-match.
NoName == [some |-> FALSE, v |-> <<>>]
Text(t) == [k |-> "text", t |-> t, n |-> 0, f |-> NoName]
Dir(n, f) == [k |-> "dir", t |-> <<>>, n |-> n, f |-> f]
Bad(t) == [k |-> "bad", t |-> t, n |-> 0, f |-> NoName]

RECURSIVE Decimal(_)
Decimal(n) ==
  IF n < 10 THEN <<DigitChars[n + 1]>>
  ELSE Decimal(n \div 10) \o <<DigitChars[(n % 10) + 1]>>

Render(d) ==
  IF d.k = "dir"
  THEN Marker \o <<" ">> \o Decimal(d.n)
       \o (IF d.f.some THEN <<" ", "\"">> \o d.f.v \o <<"\"">> ELSE <<>>)
  ELSE d.t

\* the bytes of lines 1..k of the description, each followed by its newline
\* but for a last line without EOL
RECURSIVE RenderLines(_, _, _)
RenderLines(ls, eol, k) ==
  IF k = 0 THEN <<>>
  ELSE RenderLines(ls, eol, k - 1) \o Render(ls[k])
       \o (IF k < Len(ls) \/ eol THEN <<NL>> ELSE <<>>)

Buffer(in) == RenderLines(in.lines, in.eol, Len(in.lines))

TextLines == {<<>>, <<"a">>}
FileNames == {<<"f">>}
BadLines ==
  { Marker,
    Marker \o <<"f", "o", "o">>,
    Marker \o <<" ", "a", "b", "c">>,
    Marker \o <<" ", " ", "5">> }

LineDescs ==
  {Text(t) : t \in TextLines}
  \cup {Dir(n, f) : n \in 0..MaxN, f \in {NoName} \cup {Some(x) : x \in FileNames}}
  \cup {Bad(t) : t \in BadLines}

\* the example of the crate documentation (src/src/lib.rs, lines 31-40)
DocExample ==
  [lines |-> <<Dir(1, Some(<<"t", "o", "p", "_", "f", "i", "l", "e">>)),
               Text(<<"a", " ", "f", "i", "r", "s", "t", " ", "s", "t", "a", "t", "e", "m", "e", "n", "t", ";">>),
               Text(<<"a", "n", "o", "t", "h", "e", "r", " ", "o", "n", "e">>),
               Text(<<>>),
               Dir(1, Some(<<"i", "n", "c", "l", "u", "d", "e", "d", "_", "f", "i", "l", "e">>)),
               Text(<<"c", "o", "n", "t", "i", "n", "u", "e", ".", ".", ".">>),
               Text(<<>>),
               Dir(5, NoName),
               Text(<<"a", "n", "o", "t", "h", "e", "r", " ", "l", "i", "n", "e">>),
               Text(<<"t", "h", "e", " ", "l", "a", "s", "t", " ", "o", "n", "e">>)>>,
   eol |-> TRUE]

\* a longer buffer: directives without a filename in the middle and at the end
CarryExample ==
  [lines |-> <<Text(<<"a">>),
               Dir(1, Some(<<"f">>)),
               Text(<<"a">>),
               Dir(3, NoName),
               Text(<<>>),
               Dir(7, Some(<<"g", "h">>)),
               Dir(12, NoName),
               Text(<<"a">>)>>,
   eol |-> FALSE]

\* every description of at most MaxLines lines; a description without EOL
\* ends in a non-empty line, so that its lines are the lines of its bytes
Inputs ==
  {in \in [lines : UNION {[1..n -> LineDescs] : n \in 0..MaxLines},
           eol : BOOLEAN] :
     IF in.eol THEN Len(in.lines) > 0
     ELSE Len(in.lines) = 0 \/ Render(in.lines[Len(in.lines)]) # <<>>}
  \cup {DocExample, CarryExample}

(* ---------------- the state machine ---------------- *)

VARIABLES
  input,     \* the description the buffer was rendered from (not in the code)
  contents,  \* PreprocessedFile.contents
  pc,        \* "start", then "built" (new returned) or "panicked"
  lines,     \* PreprocessedFile.lines
  ids,       \* PreprocessedFile.ids
  query,     \* the last query and its result
  located,   \* the last operation on an EasyLocated: receiver and result
  reporting  \* one EasyReporting, its emitting threads, its check_status call

vars == <<input, contents, pc, lines, ids, query, located, reporting>>

\* the variables of the other parts of the crate
elsewhere == <<located, reporting>>

Threads == 1..NThreads

\* EasyReporting::with_config: both counters at 0, no thread in emit, no
\* check_status under way.  `issued` counts the calls of emit by severity
\* and `quiet` tells that no emit ran since check_status was entered (neither
\* is in the code).
NoReporting ==
  [errors |-> 0, warnings |-> 0,
   at |-> [t \in Threads |-> "idle"],
   severity |-> [t \in Threads |-> "Help"],
   issued |-> [v \in Severities |-> 0],
   check |-> "idle", loaded |-> 0, quiet |-> FALSE, status |-> NoStatus]

\* no located value is in use
Unlocated ==
  [op |-> "idle", self |-> Located(Value("Plain", 0), Range(0, 0)),
   f |-> NoClosure, out |-> Located(Value("Plain", 0), Range(0, 0))]

NoQuery == [op |-> "none", id |-> 0, arg |-> 0, res |-> OkVal(0)]

\* the byte offsets a query is made with: those of the buffer, its length,
\* a few more, and the largest usize
Offsets == (0..(Len(contents) + MaxBeyond)) \cup {UsizeModulus - 1}

\* the line indices line_range is asked for: small ones, and the wrapped
\* casts of small negative ones
LineArgs ==
  {ToUsize(i) : i \in (0 - 2)..(Len(lines) + 1)}

Init ==
  /\ input \in Inputs
  /\ contents = Buffer(input)
  /\ pc = "start"
  /\ lines = <<>>
  /\ ids = <<>>
  /\ query = NoQuery
  /\ located = Unlocated
  /\ reporting = NoReporting

\* PreprocessedFile::new(contents)
New ==
  /\ pc = "start"
  /\ LET made == NewFile(contents)
     IN  /\ pc' = IF made.panic THEN "panicked" ELSE "built"
         /\ lines' = made.lines
         /\ ids' = made.ids
  /\ UNCHANGED <<input, contents, query>>
  /\ UNCHANGED elsewhere

\* file_id(byte_index)
FileId ==
  /\ pc = "built"
  /\ query = NoQuery
  /\ \E b \in Offsets :
       query' = [op |-> "file_id", id |-> 0, arg |-> b,
                 res |-> OkVal(file_id(ids, b))]
  /\ UNCHANGED <<input, contents, pc, lines, ids>>
  /\ UNCHANGED elsewhere

\* line_index(id, byte_index), id any slice of this codemap
LineIndex ==
  /\ pc = "built"
  /\ query = NoQuery
  /\ \E i \in 1..Len(ids), b \in Offsets :
       query' = [op |-> "line_index", id |-> i, arg |-> b,
                 res |-> line_index(lines, ids[i], b)]
  /\ UNCHANGED <<input, contents, pc, lines, ids>>
  /\ UNCHANGED elsewhere

\* line_range(id, line_index)
LineRange ==
  /\ pc = "built"
  /\ query = NoQuery
  /\ \E i \in 1..Len(ids), l \in LineArgs :
       query' = [op |-> "line_range", id |-> i, arg |-> l,
                 res |-> line_range(lines, ids[i], l)]
  /\ UNCHANGED <<input, contents, pc, lines, ids>>
  /\ UNCHANGED elsewhere

\* name(id)
Name ==
  /\ pc = "built"
  /\ query = NoQuery
  /\ \E i \in 1..Len(ids) :
       query' = [op |-> "name", id |-> i, arg |-> 0,
                 res |-> name(contents, ids[i])]
  /\ UNCHANGED <<input, contents, pc, lines, ids>>
  /\ UNCHANGED elsewhere

\* the caller has read the result; the codemap itself never changes
Return ==
  /\ pc = "built"
  /\ query # NoQuery
  /\ query' = NoQuery
  /\ UNCHANGED <<input, contents, pc, lines, ids>>
  /\ UNCHANGED elsewhere

Next == New \/ FileId \/ LineIndex \/ LineRange \/ Name \/ Return

Spec == Init /\ [][Next]_vars

(* ---------------- the state machine of located values ---------------- *)

\* no codemap is in use
NoCodemap ==
  /\ input = [lines |-> <<>>, eol |-> FALSE]
  /\ contents = <<>>
  /\ pc = "idle"
  /\ lines = <<>>
  /\ ids = <<>>
  /\ query = NoQuery

codemapVars == <<input, contents, pc, lines, ids, query>>

\* a value located by Range::locate
InitLoc ==
  /\ NoCodemap
  /\ reporting = NoReporting
  /\ \E x \in Inners, loc \in Locations :
       located = [op |-> "new", self |-> Located(x, loc), f |-> NoClosure,
                  out |-> Located(x, loc)]

\* the last operation left an EasyLocated in the caller's hands
InHand ==
  \/ located.op \in {"new", "map", "and_then", "locate"}
  \/ located.op = "transpose" /\ located.out.kind \in {"Some", "Ok"}

Held == IF located.op = "transpose" THEN located.out.v ELSE located.out

\* held.map(f)
Map ==
  /\ InHand
  /\ \E f \in Closures :
       located' = [op |-> "map", self |-> Held, f |-> f, out |-> map(Held, f)]
  /\ UNCHANGED <<codemapVars, reporting>>

\* held.transpose(), of an Option or a Result
Transpose ==
  /\ InHand
  /\ Held.inner.kind # "Plain"
  /\ located' = [op |-> "transpose", self |-> Held, f |-> NoClosure,
                 out |-> transpose(Held)]
  /\ UNCHANGED <<codemapVars, reporting>>

\* held.and_then(f), of an Option with a closure to Option, of a Result with
\* a closure to Result
AndThen ==
  /\ InHand
  /\ Held.inner.kind # "Plain"
  /\ \E f \in Closures :
       /\ f.kind \in (IF Held.inner.kind \in {"Some", "None"}
                      THEN {"Some", "None"} ELSE {"Ok", "Err"})
       /\ located' = [op |-> "and_then", self |-> Held, f |-> f,
                      out |-> and_then(Held, f)]
  /\ UNCHANGED <<codemapVars, reporting>>

\* held.locate(x)
Locate ==
  /\ InHand
  /\ \E x \in Inners :
       located' = [op |-> "locate", self |-> Held, f |-> NoClosure,
                   out |-> locate(Held, x)]
  /\ UNCHANGED <<codemapVars, reporting>>

NextLoc == Map \/ Transpose \/ AndThen \/ Locate

SpecLoc == InitLoc /\ [][NextLoc]_vars

(* ---------------- the state machine of the diagnostic tally ---------------- *)

InitTally ==
  /\ NoCodemap
  /\ located = Unlocated
  /\ reporting = NoReporting

Issued ==
  reporting.issued["Bug"] + reporting.issued["Error"]
  + reporting.issued["Warning"] + reporting.issued["Note"]
  + reporting.issued["Help"]

\* thread t calls emit with a diagnostic of some severity
EmitCall(t) ==
  /\ reporting.at[t] = "idle"
  /\ Issued < MaxEmits
  /\ \E v \in Severities :
       reporting' = [reporting EXCEPT
                       !.at[t] = "match",
                       !.severity[t] = v,
                       !.issued[v] = @ + 1,
                       !.quiet = FALSE]
  /\ UNCHANGED <<codemapVars, located>>

\* thread t in emit: the match on the severity and its fetch_add
EmitTally(t) ==
  /\ reporting.at[t] = "match"
  /\ LET to == Counted(reporting.severity[t])
     IN  reporting' = [reporting EXCEPT
                         !.at[t] = "render",
                         !.severity[t] = "Help",
                         !.errors =
                            IF to = "errors" THEN fetch_add(@, 1) ELSE @,
                         !.warnings =
                            IF to = "warnings" THEN fetch_add(@, 1) ELSE @]
  /\ UNCHANGED <<codemapVars, located>>

\* thread t in emit: term::emit on the locked writer has written the
\* diagnostic, and emit returns
EmitRender(t) ==
  /\ reporting.at[t] = "render"
  /\ reporting' = [reporting EXCEPT !.at[t] = "idle"]
  /\ UNCHANGED <<codemapVars, located>>

\* thread t in emit: term::emit fails and expect aborts the thread
EmitAbort(t) ==
  /\ reporting.at[t] = "render"
  /\ reporting' = [reporting EXCEPT !.at[t] = "aborted"]
  /\ UNCHANGED <<codemapVars, located>>

\* no thread is inside emit
Quiescent == \A t \in Threads : reporting.at[t] \in {"idle", "aborted"}

\* check_status is entered
CheckCall ==
  /\ reporting.check = "idle"
  /\ reporting' = [reporting EXCEPT
                     !.check = "errors", !.status = NoStatus,
                     !.quiet = Quiescent]
  /\ UNCHANGED <<codemapVars, located>>

\* check_status: self.errors.load(SeqCst), and Errors(n) unless it is 0
CheckErrors ==
  /\ reporting.check = "errors"
  /\ reporting' =
       IF reporting.errors # 0
       THEN [reporting EXCEPT
               !.check = "idle", !.loaded = 0,
               !.status = StatusOf(reporting.errors, 0)]
       ELSE [reporting EXCEPT
               !.check = "warnings", !.loaded = reporting.errors]
  /\ UNCHANGED <<codemapVars, located>>

\* check_status: self.warnings.load(SeqCst), errors having been 0
CheckWarnings ==
  /\ reporting.check = "warnings"
  /\ reporting' = [reporting EXCEPT
                     !.check = "idle",
                     !.status = StatusOf(reporting.loaded, reporting.warnings)]
  /\ UNCHANGED <<codemapVars, located>>

NextTally ==
  \/ \E t \in Threads : EmitCall(t)
  \/ \E t \in Threads : EmitTally(t)
  \/ \E t \in Threads : EmitRender(t)
  \/ \E t \in Threads : EmitAbort(t)
  \/ CheckCall
  \/ CheckErrors
  \/ CheckWarnings

SpecTally == InitTally /\ [][NextTally]_vars

(* ---------------- what the claims are stated with ---------------- *)

\* Lines, directives and offsets as the description of the buffer gives them,
\* computed without the line table or the scan of the code.  Lines of the
\* description are numbered from 1: line L here is flattened line L - 1.

NLines == Len(input.lines)

IsDir(L) == L \in 1..NLines /\ input.lines[L].k = "dir"

\* the offset of the first byte of line L
InputLineStart(L) == Len(RenderLines(input.lines, input.eol, L - 1))

\* b is a byte of line L, its newline included
OnInputLine(b, L) ==
  /\ InputLineStart(L) <= b
  /\ b <= InputLineStart(L) + Len(Render(input.lines[L]))
  /\ b < Len(contents)

\* the lines of the segment that directive line L starts: up to the line
\* before the next directive or the end of the buffer
SegmentLinesAfter(L) ==
  {l \in (L + 1)..NLines : \A m \in (L + 1)..l : ~IsDir(m)}

\* the filename declared by the nearest directive at or before line L
RECURSIVE NearestDeclared(_)
NearestDeclared(L) ==
  IF L = 0 THEN <<>>
  ELSE IF IsDir(L) /\ input.lines[L].f.some THEN input.lines[L].f.v
  ELSE NearestDeclared(L - 1)

\* the number of newline bytes before offset b: the plain line index of b
NewlinesBefore(b) ==
  Cardinality({i \in 1..b : i <= Len(contents) /\ contents[i] = NL})

Built == pc = "built"

\* a line_index query made on the slice file_id gives for the same offset
Resolved ==
  /\ Built
  /\ query.op = "line_index"
  /\ query.id = file_id(ids, query.arg)

(* ---------------- C1 ---------------- *)

\* C1: for a directive `#line N "F"` on flattened line L whose next line is
\* not a directive, every byte b of every line l of the segment it starts
\* resolves to a slice named F, and line_index(file_id(b), b) is
\* (N-1) + (l-(L+1)), read as a signed quantity.
C1_DirectiveOffsetContract ==
  Resolved =>
    \A L \in 1..NLines :
      (IsDir(L) /\ input.lines[L].f.some /\ L < NLines /\ ~IsDir(L + 1)) =>
        \A l \in SegmentLinesAfter(L) :
          OnInputLine(query.arg, l) =>
            /\ name(contents, ids[query.id]) = OkText(input.lines[L].f.v)
            /\ query.res.kind = "Ok"
            /\ ToIsize(query.res.val) = (input.lines[L].n - 1) + (l - (L + 1))

\* a byte of the second line after a named directive that is not on the
\* first line, resolved
C1_Witness ==
  /\ Resolved
  /\ \E L \in 2..NLines :
       /\ IsDir(L) /\ input.lines[L].f.some /\ input.lines[L].n >= 1
       /\ L + 2 \in SegmentLinesAfter(L)
       /\ OnInputLine(query.arg, L + 2)
       /\ query.res = OkVal(input.lines[L].n)

(* ---------------- C2 ---------------- *)

\* the directive line before the slice: slices start on the line after one
DirectiveOf(id) == id.lines.start

\* C2: the slice after a directive that omits its filename is named as the
\* nearest earlier directive that declared one (empty if none) and has the
\* omitting directive's own offset L+2-N, in the middle and at the end; every
\* directive has its slice; in the documented example `the last one` resolves
\* to included_file, line 6, and `a first statement;` to top_file, line 1.
C2_FilenameCarryOver ==
  /\ Built =>
       \A L \in 1..NLines :
         IsDir(L) => \E i \in 1..Len(ids) : DirectiveOf(ids[i]) = L
  /\ (Built /\ query.op = "name") =>
       LET L == DirectiveOf(ids[query.id])
       IN  (IsDir(L) /\ ~input.lines[L].f.some) =>
             /\ query.res = OkText(NearestDeclared(L))
             /\ ids[query.id].offset = (L - 1) + 2 - input.lines[L].n
  /\ (Resolved /\ input = DocExample) =>
       /\ InputLineStart(10) + 4 = 113
       /\ InputLineStart(2) + 2 = 21
       /\ (OnInputLine(query.arg, 10) /\ query.arg < InputLineStart(10) + 12) =>
            /\ name(contents, ids[query.id]) = OkText(input.lines[5].f.v)
            /\ query.res = OkVal(6 - 1)
       /\ (OnInputLine(query.arg, 2) /\ query.arg < InputLineStart(2) + 18) =>
            /\ name(contents, ids[query.id]) = OkText(input.lines[1].f.v)
            /\ query.res = OkVal(1 - 1)

\* the name of a middle slice whose directive omits the filename, carried
\* over from an earlier directive
C2_Witness ==
  /\ Built
  /\ query.op = "name"
  /\ query.id < Len(ids)
  /\ IsDir(DirectiveOf(ids[query.id]))
  /\ ~input.lines[DirectiveOf(ids[query.id])].f.some
  /\ query.res.kind = "Ok"
  /\ query.res.text # <<>>
  /\ ids[query.id].lines.start < ids[query.id].lines.end

(* ---------------- C3 ---------------- *)

\* C3 as stated: adjacent slices touch in bytes and in lines, the first
\* starts at byte 0 / line 0, the last ends at the end of the buffer and of
\* the line table, so every flattened line is in exactly one slice.
C3_ContiguityAsStated ==
  Built =>
    /\ \A i \in 1..(Len(ids) - 1) :
         /\ ids[i].bytes.end = ids[i + 1].bytes.start
         /\ ids[i].lines.end = ids[i + 1].lines.start
    /\ ids[1].bytes.start = 0 /\ ids[1].lines.start = 0
    /\ ids[Len(ids)].bytes.end = Len(contents)
    /\ ids[Len(ids)].lines.end = Len(lines)
    /\ \A l \in 0..(Len(lines) - 1) :
         Cardinality({i \in 1..Len(ids) :
                        ids[i].lines.start <= l /\ l < ids[i].lines.end}) = 1

\* C3, amended: adjacent slices are separated by exactly the directive line
\* between them (a ends where that line starts, b starts on the line after
\* it); the first slice starts at byte 0 / line 0 unless line 0 is a
\* directive, and then on line 1; the last ends with the line table, at the
\* end of the last line range (the final newline, or the buffer length);
\* every line that is not a directive is in exactly one slice, a directive
\* line in none.
C3_ContiguityUpToDirectives ==
  Built =>
    /\ \A i \in 1..(Len(ids) - 1) :
         LET a == ids[i]
             b == ids[i + 1]
         IN  /\ IsDir(a.lines.end + 1)
             /\ a.lines.end + 1 = b.lines.start
             /\ a.bytes.end = InputLineStart(a.lines.end + 1)
             /\ b.bytes.start = InputLineStart(b.lines.start + 1)
    /\ IF IsDir(1)
       THEN ids[1].lines.start = 1 /\ ids[1].bytes.start = InputLineStart(2)
       ELSE ids[1].lines.start = 0 /\ ids[1].bytes.start = 0
    /\ ids[Len(ids)].lines.end = Len(lines)
    /\ ids[Len(ids)].bytes.end =
         IF input.eol THEN Len(contents) - 1 ELSE Len(contents)
    /\ \A l \in 0..(Len(lines) - 1) :
         Cardinality({i \in 1..Len(ids) :
                        ids[i].lines.start <= l /\ l < ids[i].lines.end})
           = IF IsDir(l + 1) THEN 0 ELSE 1

\* a codemap with a leading slice, a middle slice and a last one
C3_Witness ==
  /\ Built
  /\ Len(ids) >= 3
  /\ ~IsDir(1)
  /\ \E i \in 2..(Len(ids) - 1) : ids[i].lines.start < ids[i].lines.end

(* ---------------- C4 ---------------- *)

\* C4: the slices are never empty as a list, each range is well formed, and
\* adjacent slices are in strictly increasing byte order without overlap:
\* a.start <= a.end <= b.start, for bytes and for lines.
C4_OrderedNonOverlapping ==
  Built =>
    /\ Len(ids) >= 1
    /\ \A i \in 1..Len(ids) :
         /\ ids[i].bytes.start <= ids[i].bytes.end
         /\ ids[i].lines.start <= ids[i].lines.end
    /\ \A i \in 1..(Len(ids) - 1) :
         /\ ids[i].bytes.end <= ids[i + 1].bytes.start
         /\ ids[i].lines.end <= ids[i + 1].lines.start
         /\ ids[i].bytes.start < ids[i + 1].bytes.start

\* consecutive directives: an empty slice between two others
C4_Witness ==
  /\ Built
  /\ \E i \in 2..(Len(ids) - 1) :
       /\ ids[i].bytes.start = ids[i].bytes.end
       /\ ids[i].lines.start = ids[i].lines.end

(* ---------------- C5 ---------------- *)

\* the flattened line that original line index i of slice id stands for
FlattenedLine(id, i) == ToIsize(i) + id.offset

\* C5: for every slice s and original line index i whose flattened line
\* i + s.offset lies in s.lines, line_range(s, i) is Ok(r) and
\* line_index(s, r.start) is Ok(i).
C5_RoundTrip ==
  (Built /\ query.op = "line_range") =>
    LET s == ids[query.id]
        i == query.arg
    IN  (s.lines.start <= FlattenedLine(s, i) /\ FlattenedLine(s, i) < s.lines.end) =>
          /\ query.res.kind = "Ok"
          /\ line_index(lines, s, query.res.range.start) = OkVal(i)

\* the range of an empty line that is the last of the buffer, in a slice
\* with a non-zero offset
C5_Witness ==
  /\ Built
  /\ query.op = "line_range"
  /\ ids[query.id].offset # 0
  /\ FlattenedLine(ids[query.id], query.arg) = Len(lines) - 1
  /\ ids[query.id].lines.start < Len(lines) - 1
  /\ query.res.kind = "Ok"
  /\ query.res.range.start = query.res.range.end

(* ---------------- C6 ---------------- *)

NoDirectiveLine == \A L \in 1..NLines : input.lines[L].k = "text"

\* the number of lines of the buffer, counted from its newlines
PlainLineCount ==
  NewlinesBefore(Len(contents))
  + (IF Len(contents) = 0 \/ contents[Len(contents)] # NL THEN 1 ELSE 0)

\* the one slice of a buffer without directives, and file_id on it
WholeBufferSlice ==
  /\ Built =>
       /\ Len(ids) = 1
       /\ name(contents, ids[1]) = OkText(<<>>)
       /\ ids[1].offset = 0
       /\ ids[1].lines = Range(0, PlainLineCount)
       /\ Len(lines) = PlainLineCount
  /\ (Built /\ query.op = "file_id" /\ query.arg <= Len(contents)) =>
       query.res = OkVal(1)

\* C6 as stated: without directives there is one slice, with empty name,
\* offset 0 and every line; file_id gives it for every b in [0, len]; and
\* line_index(slice, b) is the number of newlines before b, for every such b.
C6_NoDirectiveIdentityAsStated ==
  NoDirectiveLine =>
    /\ WholeBufferSlice
    /\ (Built /\ query.op = "line_index" /\ query.arg <= Len(contents)) =>
         query.res = OkVal(NewlinesBefore(query.arg))

\* C6, amended: as stated for every b in [0, len); at b = len line_index
\* gives the index of the last line, which is the newline count less one
\* when the buffer ends with a newline.
C6_NoDirectiveIdentity ==
  NoDirectiveLine =>
    /\ WholeBufferSlice
    /\ (Built /\ query.op = "line_index" /\ query.arg < Len(contents)) =>
         query.res = OkVal(NewlinesBefore(query.arg))
    /\ (Built /\ query.op = "line_index" /\ query.arg = Len(contents)) =>
         query.res = OkVal(PlainLineCount - 1)

\* line_index of a byte of the third line of a buffer without directives
C6_Witness ==
  /\ NoDirectiveLine
  /\ Built
  /\ query.op = "line_index"
  /\ query.arg < Len(contents)
  /\ query.res = OkVal(2)

(* ---------------- C7 ---------------- *)

Least(S) == CHOOSE x \in S : \A y \in S : x <= y

\* the reference scan: the first slice containing b (end included), else
\* the first slice starting after b, else the last slice
LinearScan(b) ==
  LET containing == {i \in 1..Len(ids) :
                       ids[i].bytes.start <= b /\ b <= ids[i].bytes.end}
      after == {i \in 1..Len(ids) : ids[i].bytes.start > b}
  IN  IF containing # {} THEN Least(containing)
      ELSE IF after # {} THEN Least(after)
      ELSE Len(ids)

\* C7: for every b in [0, len], file_id(b) is the slice the reference linear
\* scan gives.
C7_BinarySearchIsLinearScan ==
  (Built /\ query.op = "file_id" /\ query.arg <= Len(contents)) =>
    query.res = OkVal(LinearScan(query.arg))

\* b on the boundary of an empty slice between two consecutive directives
C7_Witness ==
  /\ Built
  /\ query.op = "file_id"
  /\ \E i \in 2..(Len(ids) - 1) :
       /\ ids[i].bytes.start = ids[i].bytes.end
       /\ query.arg = ids[i].bytes.start
       /\ query.res = OkVal(i)

(* ---------------- C8 ---------------- *)

\* C8: file_id(b) is a slice of the codemap for every b, and the last slice
\* for every b at or beyond the length of the buffer.
C8_FileIdClamps ==
  (Built /\ query.op = "file_id") =>
    /\ query.res.kind = "Ok"
    /\ query.res.val \in 1..Len(ids)
    /\ query.arg >= Len(contents) => query.res.val = Len(ids)

\* an offset beyond the buffer, in a codemap of several slices
C8_Witness ==
  /\ Built
  /\ query.op = "file_id"
  /\ query.arg > Len(contents)
  /\ Len(ids) >= 2
  /\ query.res = OkVal(Len(ids))

(* ---------------- C9 ---------------- *)

\* C9: line_index(s, b) is, read as a signed quantity, (s.lines.end-1) -
\* s.offset when b >= s.bytes.end; the error when b < s.bytes.start; else
\* (the flattened line holding b) - s.offset.
C9_LineIndexBoundaries ==
  (Built /\ query.op = "line_index") =>
    LET s == ids[query.id]
        b == query.arg
    IN  IF b >= s.bytes.end
        THEN /\ query.res.kind = "Ok"
             /\ ToIsize(query.res.val) = (s.lines.end - 1) - s.offset
        ELSE IF b < s.bytes.start
        THEN query.res.kind = "FileMissing"
        ELSE /\ query.res.kind = "Ok"
             /\ ToIsize(query.res.val) = NewlinesBefore(b) - s.offset

\* an offset at the end of a slice that is not the last, with an offset
C9_Witness ==
  /\ Built
  /\ query.op = "line_index"
  /\ query.id < Len(ids)
  /\ ids[query.id].offset # 0
  /\ ids[query.id].lines.start < ids[query.id].lines.end
  /\ query.arg = ids[query.id].bytes.end
  /\ query.res.kind = "Ok"

(* ---------------- C10 ---------------- *)

IsBad(L) == L \in 1..NLines /\ input.lines[L].k = "bad"

\* C10: a line that starts with `#line` without matching the grammar is
\* content: new returns, no slice starts after that line, and the line lies
\* in a slice.
C10_MalformedIsContent ==
  (pc # "start") =>
    \A L \in 1..NLines :
      IsBad(L) =>
        /\ Built
        /\ \A i \in 1..Len(ids) : ids[i].lines.start # L
        /\ \E i \in 1..Len(ids) :
             ids[i].lines.start <= L - 1 /\ L - 1 < ids[i].lines.end

(* ---------------- C11 ---------------- *)

\* the largest index of the line table
MaxValidIndex == Len(lines) - 1

\* the flattened line line_range looks up for original index i of slice id
LookedUp(id, i) == ToIsize(i) + id.offset

\* C11: line_range(s, i) is the range of flattened line i + s.offset when
\* that line is in the table; otherwise it is LineTooLarge with given = i and
\* max = the maximum valid index.
C11_LineTooLargeReport ==
  (Built /\ query.op = "line_range") =>
    LET at == LookedUp(ids[query.id], query.arg)
    IN  IF 0 <= at /\ at < Len(lines)
        THEN query.res = OkRange(lines[at + 1])
        ELSE /\ query.res.kind = "LineTooLarge"
             /\ query.res.val = query.arg
             /\ query.res.range.end = MaxValidIndex

(* ---------------- C12 ---------------- *)

\* the lines of the table that hold byte b, their end included
LinesHolding(b) ==
  {k \in 1..Len(lines) : lines[k].start <= b /\ b <= lines[k].end}

EndsWithNewline == Len(contents) > 0 /\ contents[Len(contents)] = NL

\* C12: the line table starts at byte 0, each line ends on its newline and
\* the next one starts one byte later, every byte of the buffer is in exactly
\* one line, and the last line ends on the final newline or, without one, at
\* the buffer length.
C12_LineTable ==
  Built =>
    /\ Len(lines) >= 1
    /\ lines[1].start = 0
    /\ \A k \in 1..Len(lines) :
         /\ lines[k].start <= lines[k].end
         /\ \A b \in lines[k].start..(lines[k].end - 1) : contents[b + 1] # NL
         /\ k < Len(lines) =>
              /\ lines[k].end < Len(contents)
              /\ contents[lines[k].end + 1] = NL
              /\ lines[k + 1].start = lines[k].end + 1
    /\ \A b \in 0..(Len(contents) - 1) : Cardinality(LinesHolding(b)) = 1
    /\ lines[Len(lines)].end =
         IF EndsWithNewline THEN Len(contents) - 1 ELSE Len(contents)

\* a table of several lines whose last one has no newline
C12_Witness ==
  /\ Built
  /\ Len(lines) >= 3
  /\ ~EndsWithNewline
  /\ lines[Len(lines)].start < lines[Len(lines)].end

(* ---------------- C13 ---------------- *)

\* C13: map(f) of (x, loc) is (f(x), loc); transpose of a located Some(x) or
\* Ok(x) is a located x with the same loc, and of None or Err(e) it is None
\* or Err(e); and_then and locate give a value at the location of their
\* receiver.
C13_LocationPreserved ==
  LET self == located.self
      out == located.out
  IN  /\ located.op = "map" =>
           /\ out.loc = self.loc
           /\ out.inner = Call(located.f, self.inner.v)
      /\ located.op = "transpose" =>
           /\ out.kind = self.inner.kind
           /\ IF self.inner.kind \in {"Some", "Ok"}
              THEN /\ out.v.loc = self.loc
                   /\ out.v.inner = Value("Plain", self.inner.v)
              ELSE out.v = self.inner.v
      /\ located.op = "and_then" =>
           /\ out.loc = self.loc
           /\ out.inner = IF self.inner.kind \in {"Some", "Ok"}
                          THEN Call(located.f, self.inner.v)
                          ELSE self.inner
      /\ located.op = "locate" => out.loc = self.loc

\* a value mapped to another one at a location that is not the default one
C13_Witness ==
  /\ located.op = "map"
  /\ located.self.loc = Range(1, 2)
  /\ located.out.loc = Range(1, 2)
  /\ located.out.inner # located.self.inner

(* ---------------- C14 ---------------- *)

WellFormed == \A L \in 1..NLines : ~IsBad(L)

\* C14: when the last line of the buffer is a directive and every directive
\* is well formed, new returns and the last slice is empty, lies at the end
\* of the buffer, and has the offset and the filename of that directive.
C14_DirectiveOnFinalLine ==
  (pc # "start" /\ WellFormed /\ IsDir(NLines)) =>
    /\ Built
    /\ LET last == ids[Len(ids)]
       IN  /\ last.bytes = Range(Len(contents), Len(contents))
           /\ last.lines.start = last.lines.end
           /\ last.offset = DirectiveOffset(NLines - 1, input.lines[NLines].n)
           /\ last.name = NearestDeclared(NLines)

(* ---------------- C15 ---------------- *)

\* C15: with well-formed directives, for every byte offset b up to the buffer
\* length, line_index(file_id(b), b) is Ok(v) with v >= 0 as a signed value.
C15_ResolveThenIndex ==
  (Resolved /\ WellFormed /\ query.arg <= Len(contents)) =>
    /\ query.res.kind = "Ok"
    /\ ToIsize(query.res.val) >= 0

(* ---------------- C16 ---------------- *)

ErrorsIssued == reporting.issued["Bug"] + reporting.issued["Error"]

WarningsIssued == reporting.issued["Warning"]

\* C16: once no thread is inside emit, the error counter is the number of
\* diagnostics emitted with severity Bug or Error and the warning counter the
\* number emitted with severity Warning; a check_status made from then on
\* returns Errors(e) when e > 0, else Warnings(w) when w > 0, else Faultless.
C16_TallyUnderConcurrency ==
  /\ Quiescent =>
       /\ reporting.errors = ErrorsIssued
       /\ reporting.warnings = WarningsIssued
  /\ (reporting.quiet /\ reporting.status # NoStatus) =>
       reporting.status =
         IF ErrorsIssued > 0 THEN Status("Errors", ErrorsIssued)
         ELSE IF WarningsIssued > 0 THEN Status("Warnings", WarningsIssued)
         ELSE Status("Faultless", 0)

\* two errors and a warning emitted, then checked
C16_Witness ==
  /\ Quiescent
  /\ reporting.quiet
  /\ reporting.issued["Error"] = 1
  /\ reporting.issued["Bug"] = 1
  /\ reporting.issued["Warning"] = 1
  /\ reporting.status = Status("Errors", 2)

====
